---- MODULE Spec2Model ----
(***************************************************************************)
(* hddfancontrol: the daemon command of src/src/main.rs as a state machine. *)
(* The control thread runs setup, then the tick loop (drive states, drive   *)
(* temperatures, hwmon temperatures, speed computation, fan actuation,      *)
(* interruptible sleep), then drops its locals (among them the exit hook).  *)
(* The ctrlc handler thread stores the termination flag and sends a message *)
(* on the exit channel.                                                     *)
(*                                                                          *)
(* Speeds are exact rationals <<n, d>> in lowest terms (the code uses f64; *)
(* rounding of the floating point operations is not modelled).  Temperatures*)
(* are whole degrees.  The modules fan, exit, pwm, device and probe are not *)
(* part of the available source: fan::target_speed, Fan::set_speed, the     *)
(* PWM raw conversion and the exit hook follow the written specification.   *)
(***************************************************************************)
EXTENDS Integers, Sequences, FiniteSets, TLC

\* ------------------------------------------------------------------ bounds
NDrives == 2
NHwmon == 2
NFans == 2
MaxSignals == 2
MaxElapsed == 3

Drives == 1..NDrives
Fans == 1..NFans

\* Values the environment and the command line can supply.
DriveTemps == {25, 40, 55}
HwmonTemps == {25, 35, 55}
DriveStates == {"active", "standby"}
MinSpeedPrcts == {0, 20, 120}
Intervals == {2}
InitialRaw == [f \in Fans |-> 70 + f]

\* Option: None, or Some(x).  A speed <<n, d>> and a snapshot are never empty,
\* so None also stands for "no speed" and "no exit hook".
None == <<>>
Some(x) == <<x>>

\* ------------------------------------------------------------- rationals
RECURSIVE GCD(_, _)
GCD(a, b) == IF b = 0 THEN a ELSE GCD(b, a % b)

Abs(x) == IF x < 0 THEN -x ELSE x

\* <<n, d>> in lowest terms with d > 0
Norm(n, d) ==
    LET s == IF d < 0 THEN -1 ELSE 1
        g == GCD(Abs(n), Abs(d))
    IN  <<(s * n) \div g, (s * d) \div g>>

Zero == <<0, 1>>
One == <<1, 1>>
\* (each operand is bound to its value once, x and y, before it is used)
RAdd(a, b) ==
    CHOOSE r \in {Norm(x[1] * y[2] + y[1] * x[2], x[2] * y[2]) :
                    x \in {a}, y \in {b}} : TRUE
RSub(a, b) ==
    CHOOSE r \in {Norm(x[1] * y[2] - y[1] * x[2], x[2] * y[2]) :
                    x \in {a}, y \in {b}} : TRUE
RMul(a, b) ==
    CHOOSE r \in {Norm(x[1] * y[1], x[2] * y[2]) : x \in {a}, y \in {b}} : TRUE
RLe(a, b) == a[1] * b[2] <= b[1] * a[2]
RLt(a, b) == a[1] * b[2] < b[1] * a[2]
RMax(a, b) == IF RLe(a, b) THEN b ELSE a

\* ------------------------------------------------------- configuration
\* --drive-temp-range, lines 193-196
drive_temp_range == [start |-> 30, end |-> 50]
\* the range of every hwmon (given on the command line or the default one)
hwmon_range == [start |-> 30, end |-> 70]
\* the largest raw value of a PWM attribute
max_raw == 255

VARIABLES
    pc,                \* position of the control thread in main
    result,            \* what main returned: "none" | "ok" | "err"
    failed,            \* the operation whose error main propagated, or "none"
    supports,          \* drive_probers[d].1: the prober can probe a sleeping drive
    min_fan_speed_prct,
    restore_fan_settings,
    interval,
    hwmons,            \* number of configured hwmon sensors
    min_fan_speed,     \* Speed, set by setup
    exit_hook,         \* None, or the hook: its snapshot [Fans -> raw] and policy
    handler_set,       \* ctrlc::set_handler succeeded
    exit_requested,    \* the AtomicBool
    chan,              \* messages queued in the mpsc channel
    hpc,               \* position of the handler thread: "idle" | "send"
    signals,           \* SIGINTs delivered so far
    i,                 \* index of the iterator of the current phase
    state,             \* the power state queried last, that of drive i
    temps,             \* Vec<Option<Temp>> collected in this tick
    nstate,            \* calls of drive.state() in this tick, per drive
    nprobe,            \* calls of prober.probe_temp() in this tick, per drive
    nhwmon,            \* calls of hwm.probe_temp() in this tick, per hwmon
    max_drive_temp,    \* Option<Temp>, the maximum drive temperature of this tick
    hwmon_temps,       \* Vec<Temp>, the hwmon temperatures of this tick
    speed,             \* the speed computed in this tick, or None
    commanded,         \* speeds passed to set_speed in this tick, in fan order
    pwm,               \* raw value of every PWM channel
    fan_speed,         \* the speed last commanded to every fan, or None
    writes,            \* raw values the set_speed called last wrote, in order
    elapsed,           \* processing time of the tick
    to_wait,           \* the duration passed to sleep
    remaining,         \* what is left of the sleep
    woke,              \* how the last sleep returned: "none" | "msg" | "timeout"
    fired,             \* number of runs of the exit hook's restoration
    restore_failed,    \* channels whose restoration failed
    sim,               \* the fan under test: the raw values at which it spins up
                       \* and at which it stalls
    test               \* the pwm-test command: its position, the fan under test,
                       \* the result of fan.test()

cfg_vars == <<supports, min_fan_speed_prct, restore_fan_settings, interval, hwmons>>
sig_vars == <<exit_requested, chan, hpc, signals>>
drive_vars == <<state, temps, nstate, nprobe, max_drive_temp>>
hwmon_vars == <<nhwmon, hwmon_temps>>
fan_vars == <<commanded, pwm, fan_speed, writes>>
sleep_vars == <<elapsed, to_wait, remaining, woke>>
hook_vars == <<exit_hook, fired, restore_failed>>
test_vars == <<sim, test>>
vars == <<pc, result, failed, cfg_vars, min_fan_speed, handler_set, sig_vars, i,
          drive_vars, hwmon_vars, speed, fan_vars, sleep_vars, hook_vars, test_vars>>

\* the fan under test and the test when the command is not pwm-test
NoSim == [spin_at |-> 0, stall_at |-> 0]
NoTest == [pc |-> "none", fan |-> 0, start |-> None, res |-> "none", t |-> None]

ZeroCalls(n) == [k \in 1..n |-> 0]

Init ==
    /\ pc = "setup_drives"
    /\ result = "none"
    /\ failed = "none"
    /\ supports \in [Drives -> BOOLEAN]
    /\ min_fan_speed_prct \in MinSpeedPrcts
    /\ restore_fan_settings \in BOOLEAN
    /\ interval \in Intervals
    /\ hwmons \in {0, NHwmon}
    /\ min_fan_speed = None
    /\ exit_hook = None
    /\ handler_set = FALSE
    /\ exit_requested = FALSE
    /\ chan = 0
    /\ hpc = "idle"
    /\ signals = 0
    /\ i = 0
    /\ state = "none"
    /\ temps = <<>>
    /\ nstate = ZeroCalls(NDrives)
    /\ nprobe = ZeroCalls(NDrives)
    /\ nhwmon = ZeroCalls(NHwmon)
    /\ max_drive_temp = None
    /\ hwmon_temps = <<>>
    /\ speed = None
    /\ commanded = <<>>
    /\ pwm = InitialRaw
    /\ fan_speed = [f \in Fans |-> None]
    /\ writes = <<>>
    /\ elapsed = 0
    /\ to_wait = 0
    /\ remaining = 0
    /\ woke = "none"
    /\ fired = 0
    /\ restore_failed = {}
    /\ sim = NoSim
    /\ test = NoTest

\* ------------------------------------------------------------------ exits
\* a variant of Fail that ends the process at once, without unwinding
FailExitsProcess(op) ==
    /\ failed' = op
    /\ result' = "err"
    /\ pc' = "exited"

\* a variant of Fail that records the error and tries the operation again
FailRetries(op) ==
    /\ failed' = op
    /\ result' = result
    /\ pc' = pc

\* a variant of Fail that logs the error and lets main go on into the loop
FailLogsOnly(op) ==
    /\ failed' = op
    /\ result' = result
    /\ pc' = "loop"

\* `?` on an error: main returns Err; its locals are dropped on the way out.
\* Before the exit hook exists nothing is restored.
Fail(op) ==
    /\ failed' = op
    /\ result' = "err"
    /\ pc' = "teardown"

\* ------------------------------------------------------ fan, pwm (spec 4.4-4.6)
\* fan::target_speed(temp, range, floor_speed): piecewise linear
target_speed(temp, range, floor_speed) ==
    IF temp <= range.start THEN floor_speed
    ELSE IF temp >= range.end THEN One
    ELSE RAdd(floor_speed,
              RMul(RSub(One, floor_speed),
                   Norm(temp - range.start, range.end - range.start)))

\* Speed::try_from: a speed is in [0, 1]
SpeedTryFrom(prct) == IF prct >= 0 /\ prct <= 100 THEN Norm(prct, 100) ELSE None

\* PwmChannel: round(speed * max_raw), clamped to [0, max_raw]
Raw(s) ==
    LET r == (2 * s[1] * max_raw + s[2]) \div (2 * s[2])
    IN  IF r < 0 THEN 0 ELSE IF r > max_raw THEN max_raw ELSE r

\* the fan's start and stop thresholds (cl::PwmSettings.thresholds)
thresholds == [start |-> <<3, 10>>, stop |-> <<1, 10>>]

\* a variant of SetSpeedWrites that starts the fan at the start threshold
\* whether or not it was stopped
SetSpeedWritesAlwaysKick(last, s) ==
    IF RLt(Zero, s) /\ RLt(s, thresholds.start)
    THEN <<Raw(thresholds.start), Raw(s)>>
    ELSE <<Raw(s)>>

\* Fan::set_speed: the raw values written, in order
SetSpeedWrites(last, s) ==
    IF last = Zero /\ RLt(Zero, s) /\ RLt(s, thresholds.start)
    THEN <<Raw(thresholds.start), Raw(s)>>
    ELSE <<Raw(s)>>

\* the channel's value after the first k of the writes ws
AfterWrites(old, ws, k) == IF k = 0 THEN old ELSE ws[k]

\* ------------------------------------------------------------------ setup
\* lines 197-224: drive paths, drives, probers
SetupDrives ==
    /\ pc = "setup_drives"
    /\ \/ pc' = "setup_hwmons" /\ UNCHANGED <<result, failed>>
       \/ Fail("setup_drives")
    /\ UNCHANGED <<cfg_vars, test_vars, min_fan_speed, handler_set, sig_vars, i, drive_vars,
                   hwmon_vars, speed, fan_vars, sleep_vars, hook_vars>>

\* lines 226-250: hwmons and their ranges
SetupHwmons ==
    /\ pc = "setup_hwmons"
    /\ \/ pc' = "setup_speed" /\ UNCHANGED <<result, failed>>
       \/ hwmons > 0 /\ Fail("setup_hwmons")
    /\ UNCHANGED <<cfg_vars, test_vars, min_fan_speed, handler_set, sig_vars, i, drive_vars,
                   hwmon_vars, speed, fan_vars, sleep_vars, hook_vars>>

\* lines 252-253: the minimum speed
SetupMinSpeed ==
    /\ pc = "setup_speed"
    /\ IF SpeedTryFrom(min_fan_speed_prct) = None
       THEN Fail("setup_speed") /\ UNCHANGED min_fan_speed
       ELSE /\ min_fan_speed' = SpeedTryFrom(min_fan_speed_prct)
            /\ pc' = "setup_fans"
            /\ UNCHANGED <<result, failed>>
    /\ UNCHANGED <<cfg_vars, test_vars, handler_set, sig_vars, i, drive_vars,
                   hwmon_vars, speed, fan_vars, sleep_vars, hook_vars>>

\* lines 254-258: the fans
SetupFans ==
    /\ pc = "setup_fans"
    /\ \/ pc' = "setup_hook" /\ UNCHANGED <<result, failed>>
       \/ Fail("setup_fans")
    /\ UNCHANGED <<cfg_vars, test_vars, min_fan_speed, handler_set, sig_vars, i, drive_vars,
                   hwmon_vars, speed, fan_vars, sleep_vars, hook_vars>>

\* ExitHook::new(pwms, restore): the snapshot of every channel's raw value and
\* the restoration policy
ExitHookNew(channels, restore) == [snapshot |-> channels, restore |-> restore]

\* a variant of MainExitHook that passes the policy inverted
MainExitHookInverted == ExitHookNew(pwm, ~restore_fan_settings)

\* lines 260-266: the hook main builds
MainExitHook == ExitHookNew(pwm, restore_fan_settings)

\* lines 260-266: the exit hook
SetupExitHook ==
    /\ pc = "setup_hook"
    /\ \/ /\ exit_hook' = MainExitHook
          /\ pc' = "setup_signal"
          /\ UNCHANGED <<result, failed>>
       \/ Fail("setup_hook") /\ UNCHANGED exit_hook
    /\ UNCHANGED <<cfg_vars, test_vars, min_fan_speed, handler_set, sig_vars, i, drive_vars,
                   hwmon_vars, speed, fan_vars, sleep_vars, fired, restore_failed>>

\* lines 269-278: the flag, the channel and the SIGINT handler
SetupSignal ==
    /\ pc = "setup_signal"
    /\ \/ /\ handler_set' = TRUE
          /\ pc' = "loop"
          /\ UNCHANGED <<result, failed>>
       \/ Fail("set_handler") /\ UNCHANGED handler_set
    /\ UNCHANGED <<cfg_vars, test_vars, min_fan_speed, sig_vars, i, drive_vars,
                   hwmon_vars, speed, fan_vars, sleep_vars, hook_vars>>

\* ------------------------------------------------------------- the tick loop
\* a variant of load that reads a copy of the flag made before the handler
\* was installed
load_copy(flag) == FALSE

\* line 280: exit_requested.load(Ordering::SeqCst)
load(flag) == flag

\* lines 280-281: the loop condition; a new tick starts with fresh locals
LoopCheck ==
    /\ pc = "loop"
    /\ IF load(exit_requested)
       THEN /\ result' = "ok"
            /\ pc' = "teardown"
            /\ UNCHANGED <<i, drive_vars, hwmon_vars, speed, commanded, writes,
                           sleep_vars>>
       ELSE /\ pc' = "drive_state"
            /\ i' = 1
            /\ state' = "none"
                    /\ temps' = <<>>
            /\ nstate' = ZeroCalls(NDrives)
            /\ nprobe' = ZeroCalls(NDrives)
            /\ nhwmon' = ZeroCalls(NHwmon)
            /\ max_drive_temp' = None
            /\ hwmon_temps' = <<>>
            /\ speed' = None
            /\ commanded' = <<>>
            /\ writes' = <<>>
            /\ elapsed' = 0
            /\ to_wait' = 0
            /\ remaining' = 0
            /\ woke' = "none"
            /\ UNCHANGED result
    /\ UNCHANGED <<failed, cfg_vars, test_vars, min_fan_speed, handler_set, sig_vars, pwm,
                   fan_speed, hook_vars>>

\* lines 287-290: drive.state() of drive i
DriveState ==
    /\ pc = "drive_state"
    /\ nstate' = [nstate EXCEPT ![i] = @ + 1]
    /\ \/ \E st \in DriveStates :
            /\ state' = st
            /\ pc' = "drive_temp"
            /\ UNCHANGED <<result, failed>>
       \/ Fail("drive_state") /\ UNCHANGED state
    /\ UNCHANGED <<cfg_vars, test_vars, min_fan_speed, handler_set, sig_vars, i, temps, nprobe,
                   max_drive_temp, hwmon_vars, speed, fan_vars, sleep_vars, hook_vars>>

\* DriveState::is_spun_down
is_spun_down(st) == st = "standby"

\* a variant of Sleeping with the test of the power state inverted
SleepingIgnoresState(st, supports_probing_sleeping) ==
    ~is_spun_down(st) /\ ~supports_probing_sleeping

\* line 291: the drive is not probed
Sleeping(st, supports_probing_sleeping) ==
    is_spun_down(st) /\ ~supports_probing_sleeping

\* a variant of NextDrive that goes on to probe the next drive without
\* querying its power state
NextDriveKeepsState ==
    IF i < NDrives
    THEN i' = i + 1 /\ pc' = "drive_temp"
    ELSE i' = 0 /\ pc' = "reduce"

\* the iterator of lines 283-302 moves to the next drive, or is exhausted
NextDrive ==
    IF i < NDrives
    THEN i' = i + 1 /\ pc' = "drive_state"
    ELSE i' = 0 /\ pc' = "reduce"

\* lines 291-301: the temperature of drive i, or None
DriveTemp ==
    /\ pc = "drive_temp"
    /\ IF Sleeping(state, supports[i])
       THEN /\ temps' = Append(temps, None)
            /\ NextDrive
            /\ UNCHANGED <<result, failed, nprobe>>
       ELSE /\ nprobe' = [nprobe EXCEPT ![i] = @ + 1]
            /\ \/ \E t \in DriveTemps :
                    /\ temps' = Append(temps, Some(t))
                    /\ NextDrive
                    /\ UNCHANGED <<result, failed>>
               \/ Fail("probe_temp") /\ UNCHANGED <<temps, i>>
    /\ UNCHANGED <<cfg_vars, test_vars, min_fan_speed, handler_set, sig_vars, state, nstate,
                   max_drive_temp, hwmon_vars, speed, fan_vars, sleep_vars, hook_vars>>

\* a variant of ReduceMax that reduces with f64::min
RECURSIVE ReduceMin(_)
ReduceMin(ts) ==
    IF ts = <<>> THEN None
    ELSE LET rest == ReduceMin(Tail(ts))
         IN  IF Head(ts) = None THEN rest
             ELSE IF rest = None THEN Head(ts)
             ELSE IF Head(ts)[1] <= rest[1] THEN Head(ts) ELSE rest

\* flatten().reduce(f64::max) over a Vec<Option<Temp>>
RECURSIVE ReduceMax(_)
ReduceMax(ts) ==
    IF ts = <<>> THEN None
    ELSE LET rest == ReduceMax(Tail(ts))
         IN  IF Head(ts) = None THEN rest
             ELSE IF rest = None THEN Head(ts)
             ELSE IF Head(ts)[1] >= rest[1] THEN Head(ts) ELSE rest

\* the iterator of lines 309-318 starts, moves on, or is exhausted
HwmonOrCompute(k) ==
    IF k <= hwmons
    THEN i' = k /\ pc' = "hwmon"
    ELSE i' = 0 /\ pc' = "compute"

\* lines 303-307: the maximum drive temperature; the Vec is consumed
Reduce ==
    /\ pc = "reduce"
    /\ max_drive_temp' = ReduceMax(temps)
    /\ state' = "none"
    /\ temps' = <<>>
    /\ nstate' = ZeroCalls(NDrives)
    /\ nprobe' = ZeroCalls(NDrives)
    /\ HwmonOrCompute(1)
    /\ UNCHANGED <<result, failed, cfg_vars, test_vars, min_fan_speed, handler_set, sig_vars,
                   hwmon_vars, speed, fan_vars, sleep_vars, hook_vars>>

\* lines 311-317: hwm.probe_temp() of hwmon i
HwmonProbe ==
    /\ pc = "hwmon"
    /\ nhwmon' = [nhwmon EXCEPT ![i] = @ + 1]
    /\ \/ \E t \in HwmonTemps :
            /\ hwmon_temps' = Append(hwmon_temps, t)
            /\ HwmonOrCompute(i + 1)
            /\ UNCHANGED <<result, failed>>
       \/ Fail("hwmon") /\ UNCHANGED <<hwmon_temps, i>>
    /\ UNCHANGED <<cfg_vars, test_vars, min_fan_speed, handler_set, sig_vars, drive_vars,
                   speed, fan_vars, sleep_vars, hook_vars>>

\* lines 327-331: the hwmon temperatures folded into the running speed
RECURSIVE FoldHwmon(_, _)
FoldHwmon(ts, s) ==
    IF ts = <<>> THEN s
    ELSE FoldHwmon(Tail(ts), target_speed(Head(ts), hwmon_range, s))

\* a variant of ComputeSpeed that starts from speed 0 instead of the floor
ComputeSpeedNoFloor(floor_speed, drive_temp, ts) ==
    LET s1 == IF drive_temp # None
              THEN target_speed(drive_temp[1], drive_temp_range, Zero)
              ELSE Zero
    IN  FoldHwmon(ts, s1)

\* a variant of ComputeSpeed in which the last sensor overwrites the speed
ComputeSpeedLastWins(floor_speed, drive_temp, ts) ==
    IF ts # <<>>
    THEN target_speed(ts[Len(ts)], hwmon_range, floor_speed)
    ELSE IF drive_temp # None
    THEN target_speed(drive_temp[1], drive_temp_range, floor_speed)
    ELSE floor_speed

\* a variant of ComputeSpeed that evaluates the drive temperature against the
\* hwmon range
ComputeSpeedHwmonRange(floor_speed, drive_temp, ts) ==
    LET s1 == IF drive_temp # None
              THEN target_speed(drive_temp[1], hwmon_range, floor_speed)
              ELSE floor_speed
    IN  FoldHwmon(ts, s1)

\* lines 320-331: the speed of the tick, from the floor speed, the maximum
\* drive temperature and the hwmon temperatures
ComputeSpeed(floor_speed, drive_temp, ts) ==
    LET s0 == floor_speed
        s1 == IF drive_temp # None
              THEN target_speed(drive_temp[1], drive_temp_range, s0)
              ELSE s0
    IN  FoldHwmon(ts, s1)

\* lines 320-331
Compute ==
    /\ pc = "compute"
    /\ speed' = ComputeSpeed(min_fan_speed, max_drive_temp, hwmon_temps)
    /\ nhwmon' = ZeroCalls(NHwmon)
    /\ pc' = "fans"
    /\ i' = 1
    /\ UNCHANGED <<result, failed, cfg_vars, test_vars, min_fan_speed, handler_set, sig_vars,
                   drive_vars, hwmon_temps, fan_vars, sleep_vars, hook_vars>>

\* a variant of NextFan that leaves the loop after the first fan
NextFanBreaks == i' = 0 /\ pc' = "sleep_start"

\* the iterator of lines 332-335 moves to the next fan, or is exhausted
NextFan ==
    IF i < NFans
    THEN i' = i + 1 /\ pc' = "fans"
    ELSE i' = 0 /\ pc' = "sleep_start"

\* lines 332-335: fan.set_speed(speed) of fan i; a failing write leaves the
\* channel at the value of the last write that succeeded.  The temperatures of
\* the tick are gone by now (hwmon_temps was moved at line 328, max_drive_temp
\* is not read again).
SetSpeed ==
    /\ pc = "fans"
    /\ commanded' = Append(commanded, speed)
    /\ LET ws == SetSpeedWrites(fan_speed[i], speed)
       IN  \/ /\ pwm' = [pwm EXCEPT ![i] = AfterWrites(@, ws, Len(ws))]
              /\ writes' = ws
              /\ fan_speed' = [fan_speed EXCEPT ![i] = speed]
              /\ NextFan
              /\ UNCHANGED <<result, failed>>
           \/ \E k \in 1..Len(ws) :
                /\ pwm' = [pwm EXCEPT ![i] = AfterWrites(@, ws, k - 1)]
                /\ writes' = SubSeq(ws, 1, k - 1)
                /\ Fail("set_speed")
                /\ UNCHANGED <<fan_speed, i>>
    /\ max_drive_temp' = None
    /\ hwmon_temps' = <<>>
    /\ UNCHANGED <<cfg_vars, test_vars, min_fan_speed, handler_set, sig_vars, state, temps,
                   nstate, nprobe, nhwmon, speed, sleep_vars, hook_vars>>

\* a variant of saturating_sub that subtracts without saturating
plain_sub(a, b) == a - b

\* Duration::saturating_sub
saturating_sub(a, b) == IF a > b THEN a - b ELSE 0

\* lines 337-339: the time left of the interval
SleepStart ==
    /\ pc = "sleep_start"
    /\ \E e \in 0..MaxElapsed :
        /\ elapsed' = e
        /\ to_wait' = saturating_sub(interval, e)
        /\ remaining' = saturating_sub(interval, e)
    /\ pc' = "sleep"
    /\ writes' = <<>>
    /\ UNCHANGED <<result, failed, cfg_vars, test_vars, min_fan_speed, handler_set, sig_vars, i,
                   drive_vars, hwmon_vars, speed, commanded, pwm, fan_speed, woke,
                   hook_vars>>

\* lines 49-51, recv_timeout: a queued message is received at once
SleepRecv ==
    /\ pc = "sleep"
    /\ chan > 0
    /\ chan' = chan - 1
    /\ woke' = "msg"
    /\ pc' = "loop"
    /\ UNCHANGED <<result, failed, cfg_vars, test_vars, min_fan_speed, handler_set,
                   exit_requested, hpc, signals, i, drive_vars, hwmon_vars, speed,
                   fan_vars, elapsed, to_wait, remaining, hook_vars>>

\* recv_timeout: time passes while the channel is empty
SleepTick ==
    /\ pc = "sleep"
    /\ chan = 0
    /\ remaining > 0
    /\ remaining' = remaining - 1
    /\ UNCHANGED <<pc, result, failed, cfg_vars, test_vars, min_fan_speed, handler_set, sig_vars,
                   i, drive_vars, hwmon_vars, speed, fan_vars, elapsed, to_wait, woke,
                   hook_vars>>

\* recv_timeout: the timeout expires
SleepTimeout ==
    /\ pc = "sleep"
    /\ chan = 0
    /\ remaining = 0
    /\ woke' = "timeout"
    /\ pc' = "loop"
    /\ UNCHANGED <<result, failed, cfg_vars, test_vars, min_fan_speed, handler_set, sig_vars, i,
                   drive_vars, hwmon_vars, speed, fan_vars, elapsed, to_wait,
                   remaining, hook_vars>>

\* ------------------------------------------------------------ the exit hook
\* the raw value the hook writes to channel f
RestoreValue(hook, f) == IF hook.restore THEN hook.snapshot[f] ELSE max_raw

\* Drop for ExitHook: every channel is written, a failure is only logged
Restore(bad) ==
    /\ pwm' = [f \in Fans |->
                 IF f \in bad THEN pwm[f]
                 ELSE RestoreValue(exit_hook, f)]
    /\ restore_failed' = bad
    /\ fired' = fired + 1

\* ------------------------------------------------------ the SIGINT handler
\* a variant of HandlerStore that stores into a copy of the flag the loop
\* does not read
HandlerStoreCopy ==
    /\ handler_set
    /\ pc # "exited"
    /\ hpc = "idle"
    /\ signals < MaxSignals
    /\ signals' = signals + 1
    /\ hpc' = "send"
    /\ UNCHANGED <<pc, result, failed, cfg_vars, test_vars, min_fan_speed,
                   handler_set, exit_requested, chan, i, drive_vars, hwmon_vars,
                   speed, fan_vars, sleep_vars, hook_vars>>

\* line 274: a SIGINT is delivered, the handler stores the flag
HandlerStore ==
    /\ handler_set
    /\ pc # "exited"
    /\ hpc = "idle"
    /\ signals < MaxSignals
    /\ signals' = signals + 1
    /\ exit_requested' = TRUE
    /\ hpc' = "send"
    /\ UNCHANGED <<pc, result, failed, cfg_vars, test_vars, min_fan_speed, handler_set, chan, i,
                   drive_vars, hwmon_vars, speed, fan_vars, sleep_vars, hook_vars>>

\* a variant of HandlerSend that only wakes a control thread that is asleep,
\* without queueing anything
HandlerSendNotify ==
    /\ pc # "exited"
    /\ hpc = "send"
    /\ chan' = IF pc = "sleep" THEN chan + 1 ELSE chan
    /\ hpc' = "idle"
    /\ UNCHANGED <<pc, result, failed, cfg_vars, test_vars, min_fan_speed,
                   handler_set, exit_requested, signals, i, drive_vars, hwmon_vars,
                   speed, fan_vars, sleep_vars, hook_vars>>

\* a variant of HandlerSend in which the handler also runs the restoration
HandlerSendRestores ==
    /\ pc # "exited"
    /\ hpc = "send"
    /\ chan' = IF pc = "drop_hook" THEN chan ELSE chan + 1
    /\ hpc' = "idle"
    /\ IF exit_hook # None
       THEN Restore({})
       ELSE UNCHANGED <<pwm, fired, restore_failed>>
    /\ UNCHANGED <<pc, result, failed, cfg_vars, test_vars, min_fan_speed, handler_set,
                   exit_requested, signals, i, drive_vars, hwmon_vars, speed,
                   commanded, fan_speed, writes, sleep_vars, exit_hook>>

\* line 275: the handler sends on the channel; the error of a send to a
\* dropped receiver is ignored
HandlerSend ==
    /\ pc # "exited"
    /\ hpc = "send"
    /\ chan' = IF pc = "drop_hook" THEN chan ELSE chan + 1
    /\ hpc' = "idle"
    /\ UNCHANGED <<pc, result, failed, cfg_vars, test_vars, min_fan_speed, handler_set,
                   exit_requested, signals, i, drive_vars, hwmon_vars, speed,
                   fan_vars, sleep_vars, hook_vars>>

\* main returns (line 345, or a `?`): the locals of the loop body and the
\* receiver go out of scope, in reverse order of declaration, before the hook
Return ==
    /\ pc = "teardown"
    /\ pc' = "drop_hook"
    /\ i' = 0
    /\ state' = "none"
    /\ temps' = <<>>
    /\ nstate' = ZeroCalls(NDrives)
    /\ nprobe' = ZeroCalls(NDrives)
    /\ nhwmon' = ZeroCalls(NHwmon)
    /\ max_drive_temp' = None
    /\ hwmon_temps' = <<>>
    /\ speed' = None
    /\ commanded' = <<>>
    /\ writes' = <<>>
    /\ elapsed' = 0
    /\ to_wait' = 0
    /\ remaining' = 0
    /\ woke' = "none"
    /\ chan' = 0
    /\ UNCHANGED <<result, failed, cfg_vars, test_vars, min_fan_speed, handler_set,
                   exit_requested, hpc, signals, pwm, fan_speed, hook_vars>>

\* a variant of DropExitHook in which the first channel that cannot be
\* restored ends the restoration and makes the exit an error
DropExitHookStopsAtFailure ==
    /\ pc = "drop_hook"
    /\ exit_hook # None
    /\ \E bad \in SUBSET Fans :
        /\ pwm' = [f \in Fans |->
                     IF \E b \in bad : b <= f THEN pwm[f]
                     ELSE RestoreValue(exit_hook, f)]
        /\ restore_failed' = bad
        /\ fired' = fired + 1
        /\ result' = IF bad = {} THEN result ELSE "err"
    /\ fan_speed' = [f \in Fans |-> None]
    /\ hpc' = "idle"
    /\ pc' = "exited"
    /\ UNCHANGED <<failed, cfg_vars, test_vars, min_fan_speed, handler_set,
                   exit_requested, chan, signals, i, drive_vars, hwmon_vars, speed,
                   commanded, writes, sleep_vars, exit_hook>>

\* _exit_hook (line 260) goes out of scope: the hook fires; the fans follow and
\* the process, with its handler thread, ends
DropExitHook ==
    /\ pc = "drop_hook"
    /\ exit_hook # None
    /\ \E bad \in SUBSET Fans : Restore(bad)
    /\ fan_speed' = [f \in Fans |-> None]
    /\ hpc' = "idle"
    /\ pc' = "exited"
    /\ UNCHANGED <<result, failed, cfg_vars, test_vars, min_fan_speed, handler_set,
                   exit_requested, chan, signals, i, drive_vars, hwmon_vars, speed,
                   commanded, writes, sleep_vars, exit_hook>>

\* main returns before the hook was built
ExitNoHook ==
    /\ pc = "drop_hook"
    /\ exit_hook = None
    /\ fan_speed' = [f \in Fans |-> None]
    /\ hpc' = "idle"
    /\ pc' = "exited"
    /\ UNCHANGED <<result, failed, cfg_vars, test_vars, min_fan_speed, handler_set,
                   exit_requested, chan, signals, i, drive_vars, hwmon_vars, speed,
                   commanded, pwm, writes, sleep_vars, hook_vars>>

Next ==
    \/ SetupDrives
    \/ SetupHwmons
    \/ SetupMinSpeed
    \/ SetupFans
    \/ SetupExitHook
    \/ SetupSignal
    \/ LoopCheck
    \/ DriveState
    \/ DriveTemp
    \/ Reduce
    \/ HwmonProbe
    \/ Compute
    \/ SetSpeed
    \/ SleepStart
    \/ SleepRecv
    \/ SleepTick
    \/ SleepTimeout
    \/ HandlerStore
    \/ HandlerSend
    \/ Return
    \/ DropExitHook
    \/ ExitNoHook

Spec == Init /\ [][Next]_vars

\* the steps of the control thread
ControlStep ==
    \/ SetupDrives \/ SetupHwmons \/ SetupMinSpeed \/ SetupFans \/ SetupExitHook
    \/ SetupSignal \/ LoopCheck \/ DriveState \/ DriveTemp \/ Reduce \/ HwmonProbe
    \/ Compute \/ SetSpeed \/ SleepStart \/ SleepRecv \/ SleepTick \/ SleepTimeout
    \/ Return \/ DropExitHook \/ ExitNoHook

\* The control thread keeps running (its blocking calls return, the timeout of
\* recv_timeout expires) and a handler that has stored the flag goes on to
\* send.  The delivery of a signal is left to the environment.
Fairness == WF_vars(ControlStep) /\ WF_vars(HandlerSend)

\* one command line: scenario A's floor of 20%, hwmons, restoring fan settings
InitOne ==
    /\ Init
    /\ supports = [d \in Drives |-> d = 1]
    /\ min_fan_speed_prct = 20
    /\ restore_fan_settings
    /\ hwmons = NHwmon

FairSpec == InitOne /\ [][Next]_vars /\ Fairness

\* --------------------------------------------- the pwm-test command
\* the step of the ramps of Fan::test (spec 4.5: small fixed steps)
ramp_step == 5

\* the fans put under test: the raw value from which the fan spins on the way
\* up (above max_raw: never) and the raw value at or below which it stands
\* still on the way down (below 0: never)
SimSpinAt == {0, 80, 255, 256}
SimStallAt == {-1, 0, 40, 120}

\* the RPM attribute reads nonzero
rpm_nonzero(raw, dir) ==
    IF dir = "up" THEN raw >= sim.spin_at ELSE raw > sim.stall_at

\* Thresholds of two raw values
Thresholds(start_raw, stop_raw) ==
    [start |-> Norm(start_raw, max_raw), stop |-> Norm(stop_raw, max_raw)]

\* a variant of RampDownFrom that begins the downward ramp at the maximum
RampDownFromMax(start_raw) == max_raw

\* Fan::test: the downward ramp begins at the start value just found
RampDownFrom(start_raw) == start_raw

\* lines 79-89: the fan of the next PWM path is set up; the ramp begins at 0
TestSetup ==
    /\ pc = "pwm_test"
    /\ test.pc = "setup"
    /\ \/ /\ \E sp \in SimSpinAt, st \in SimStallAt :
                sim' = [spin_at |-> sp, stall_at |-> st]
          /\ test' = [test EXCEPT !.pc = "up"]
          /\ pwm' = [pwm EXCEPT ![test.fan] = 0]
          /\ UNCHANGED <<pc, result, failed>>
       \/ Fail("fan_setup") /\ UNCHANGED <<sim, test, pwm>>
    /\ UNCHANGED <<cfg_vars, min_fan_speed, handler_set, sig_vars, i, drive_vars,
                   hwmon_vars, speed, commanded, fan_speed, writes, sleep_vars,
                   hook_vars>>

\* Fan::test, the upward ramp: the RPM is polled at the current raw value; the
\* first value with a nonzero RPM is the start value
TestRampUp ==
    /\ pc = "pwm_test"
    /\ test.pc = "up"
    /\ LET raw == pwm[test.fan]
       IN  \/ /\ test' = [test EXCEPT !.pc = "report", !.res = "err"]
              /\ UNCHANGED pwm
           \/ /\ rpm_nonzero(raw, "up")
              /\ test' = [test EXCEPT !.pc = "down", !.start = Some(raw)]
              /\ pwm' = [pwm EXCEPT ![test.fan] = RampDownFrom(raw)]
           \/ /\ ~rpm_nonzero(raw, "up")
              /\ IF raw + ramp_step <= max_raw
                 THEN /\ pwm' = [pwm EXCEPT ![test.fan] = raw + ramp_step]
                      /\ UNCHANGED test
                 ELSE /\ test' = [test EXCEPT !.pc = "report", !.res = "err"]
                      /\ UNCHANGED pwm
    /\ UNCHANGED <<pc, result, failed, cfg_vars, sim, min_fan_speed, handler_set,
                   sig_vars, i, drive_vars, hwmon_vars, speed, commanded, fan_speed,
                   writes, sleep_vars, hook_vars>>

\* Fan::test, the downward ramp: the raw value is lowered by one step and the
\* RPM polled; the first value with a zero RPM, or 0, is the stop value
TestRampDown ==
    /\ pc = "pwm_test"
    /\ test.pc = "down"
    /\ LET raw  == pwm[test.fan]
           next == IF raw > ramp_step THEN raw - ramp_step ELSE 0
           done == [test EXCEPT !.pc = "report", !.res = "ok",
                                !.t = Some(Thresholds(test.start[1], next))]
       IN  \/ /\ test' = [test EXCEPT !.pc = "report", !.res = "err"]
              /\ UNCHANGED pwm
           \/ /\ pwm' = [pwm EXCEPT ![test.fan] = next]
              /\ test' = IF next = 0 \/ ~rpm_nonzero(next, "down")
                         THEN done ELSE test
    /\ UNCHANGED <<pc, result, failed, cfg_vars, sim, min_fan_speed, handler_set,
                   sig_vars, i, drive_vars, hwmon_vars, speed, commanded, fan_speed,
                   writes, sleep_vars, hook_vars>>

\* lines 90-98: the result is logged, whichever it is; the next PWM path
\* follows, or main returns Ok
TestReport ==
    /\ pc = "pwm_test"
    /\ test.pc = "report"
    /\ sim' = NoSim
    /\ IF test.fan < NFans
       THEN /\ test' = [NoTest EXCEPT !.pc = "setup", !.fan = test.fan + 1]
            /\ UNCHANGED <<pc, result>>
       ELSE /\ test' = NoTest
            /\ result' = "ok"
            /\ pc' = "teardown"
    /\ UNCHANGED <<failed, cfg_vars, min_fan_speed, handler_set, sig_vars, i,
                   drive_vars, hwmon_vars, speed, fan_vars, sleep_vars, hook_vars>>

\* the process started with the pwm-test command
TestInit ==
    /\ pc = "pwm_test"
    /\ result = "none"
    /\ failed = "none"
    /\ supports = [d \in Drives |-> FALSE]
    /\ min_fan_speed_prct = 0
    /\ restore_fan_settings = FALSE
    /\ interval \in Intervals
    /\ hwmons = 0
    /\ min_fan_speed = None
    /\ exit_hook = None
    /\ handler_set = FALSE
    /\ exit_requested = FALSE
    /\ chan = 0
    /\ hpc = "idle"
    /\ signals = 0
    /\ i = 0
    /\ state = "none"
    /\ temps = <<>>
    /\ nstate = ZeroCalls(NDrives)
    /\ nprobe = ZeroCalls(NDrives)
    /\ nhwmon = ZeroCalls(NHwmon)
    /\ max_drive_temp = None
    /\ hwmon_temps = <<>>
    /\ speed = None
    /\ commanded = <<>>
    /\ pwm = InitialRaw
    /\ fan_speed = [f \in Fans |-> None]
    /\ writes = <<>>
    /\ elapsed = 0
    /\ to_wait = 0
    /\ remaining = 0
    /\ woke = "none"
    /\ fired = 0
    /\ restore_failed = {}
    /\ sim = NoSim
    /\ test = [NoTest EXCEPT !.pc = "setup", !.fan = 1]

TestNext ==
    \/ TestSetup
    \/ TestRampUp
    \/ TestRampDown
    \/ TestReport
    \/ Return
    \/ ExitNoHook

TestSpec == TestInit /\ [][TestNext]_vars

\* ------------------------------------------- the speed curve on its own
\* the drive temperatures and floor percentages the curve is evaluated on
CurveTemps == 25..55
CurvePrcts == {0, 20, 50, 100}

\* the daemon at line 320 of its first tick, without hwmons: every maximum
\* drive temperature and every floor speed
CurveInit ==
    /\ pc = "compute"
    /\ result = "none"
    /\ failed = "none"
    /\ supports = [d \in Drives |-> TRUE]
    /\ min_fan_speed_prct \in CurvePrcts
    /\ restore_fan_settings = TRUE
    /\ interval \in Intervals
    /\ hwmons = 0
    /\ min_fan_speed = SpeedTryFrom(min_fan_speed_prct)
    /\ exit_hook = ExitHookNew(InitialRaw, TRUE)
    /\ handler_set = TRUE
    /\ exit_requested = FALSE
    /\ chan = 0
    /\ hpc = "idle"
    /\ signals = 0
    /\ i = 0
    /\ state = "none"
    /\ temps = <<>>
    /\ nstate = ZeroCalls(NDrives)
    /\ nprobe = ZeroCalls(NDrives)
    /\ nhwmon = ZeroCalls(NHwmon)
    /\ max_drive_temp \in {Some(t) : t \in CurveTemps}
    /\ hwmon_temps = <<>>
    /\ speed = None
    /\ commanded = <<>>
    /\ pwm = InitialRaw
    /\ fan_speed = [f \in Fans |-> None]
    /\ writes = <<>>
    /\ elapsed = 0
    /\ to_wait = 0
    /\ remaining = 0
    /\ woke = "none"
    /\ fired = 0
    /\ restore_failed = {}
    /\ sim = NoSim
    /\ test = NoTest

CurveSpec == CurveInit /\ [][Compute]_vars

\* ------------------------------------------------- set_speed on its own
\* maximum drive temperatures giving the speeds 0, 1/10, 1/4, 3/10, 1/2 and 1
\* with a floor of 0
FanTemps == {30, 32, 35, 36, 40, 50}
FanSpeeds == {ComputeSpeed(Zero, Some(t), <<>>) : t \in FanTemps}

\* the daemon at line 332 of a tick, without hwmons and with a floor of 0:
\* every speed of this tick and, for every fan, every speed commanded before
\* (or none yet)
FanInit ==
    /\ pc = "fans"
    /\ result = "none"
    /\ failed = "none"
    /\ supports = [d \in Drives |-> TRUE]
    /\ min_fan_speed_prct = 0
    /\ restore_fan_settings = TRUE
    /\ interval \in Intervals
    /\ hwmons = 0
    /\ min_fan_speed = SpeedTryFrom(min_fan_speed_prct)
    /\ exit_hook = ExitHookNew(InitialRaw, TRUE)
    /\ handler_set = TRUE
    /\ exit_requested = FALSE
    /\ chan = 0
    /\ hpc = "idle"
    /\ signals = 0
    /\ i = 1
    /\ state = "none"
    /\ temps = <<>>
    /\ nstate = ZeroCalls(NDrives)
    /\ nprobe = ZeroCalls(NDrives)
    /\ nhwmon = ZeroCalls(NHwmon)
    /\ max_drive_temp \in {Some(t) : t \in FanTemps}
    /\ hwmon_temps = <<>>
    /\ speed = ComputeSpeed(min_fan_speed, max_drive_temp, hwmon_temps)
    /\ commanded = <<>>
    /\ fan_speed \in [Fans -> FanSpeeds \cup {None}]
    /\ pwm = [f \in Fans |-> IF fan_speed[f] = None THEN InitialRaw[f]
                                ELSE Raw(fan_speed[f])]
    /\ writes = <<>>
    /\ elapsed = 0
    /\ to_wait = 0
    /\ remaining = 0
    /\ woke = "none"
    /\ fired = 0
    /\ restore_failed = {}
    /\ sim = NoSim
    /\ test = NoTest

FanSpec == FanInit /\ [][SetSpeed]_vars

\* ================================================================= claims
Stopped == pc \in {"teardown", "drop_hook", "exited"}

\* C1: a drive whose power state queried in this tick is spun down and whose
\* prober cannot probe a sleeping drive is not probed in this tick and
\* contributes no temperature: the drive handled last has no probe call and no
\* temperature; no probe fails on such a drive; and the drives that
\* contribute a temperature are the drives that were probed.
C1_SleepingDriveNotProbed ==
    LET d == Len(temps) IN
    /\ (pc \in {"drive_state", "reduce"} /\ d >= 1
          /\ state = "standby" /\ ~supports[d])
          => (nprobe[d] = 0 /\ temps[d] = None)
    /\ (pc = "drive_temp" /\ state = "standby" /\ ~supports[i]) => nprobe[i] = 0
    /\ (pc = "teardown" /\ failed = "probe_temp")
          => ~(state = "standby" /\ ~supports[i])
    /\ \A k \in 1..d : (temps[k] = None) <=> (nprobe[k] = 0)

C1_Witness ==
    /\ pc = "reduce"
    /\ state = "standby" /\ ~supports[NDrives] /\ temps[NDrives] = None
    /\ nprobe[NDrives] = 0
    /\ temps[1] # None /\ nprobe[1] = 1

\* C2: once the exit hook exists, the process never ends without the hook's
\* restoration having run, whatever made main return.
C2_ExitRestores ==
    (pc = "exited" /\ exit_hook # None) => fired >= 1

C2_Witness ==
    /\ pc = "exited" /\ exit_hook # None /\ fired = 1
    /\ failed = "set_speed"
C4_FiresOnce ==
    /\ [](fired <= 1)
    /\ []((pc = "exited" /\ exit_hook # None) => fired = 1)
    /\ [][fired >= 1 => pwm' = pwm]_vars

C4_Witness ==
    /\ pc = "exited" /\ fired = 1
    /\ signals = MaxSignals
    /\ result = "err"

\* the speed of the tick has just been computed: the temperatures it was
\* computed from are still known, and no fan has been commanded yet
Computed == pc = "fans" /\ commanded = <<>>

\* the speeds the curve gives for each contributing sensor on its own, with
\* the configured floor speed
IndependentTargets(floor_speed, drive_temp, ts) ==
    {floor_speed}
    \cup (IF drive_temp # None
          THEN {target_speed(drive_temp[1], drive_temp_range, floor_speed)}
          ELSE {})
    \cup {target_speed(ts[k], hwmon_range, floor_speed) : k \in 1..Len(ts)}

RMaxSet(S) == CHOOSE m \in S : \A x \in S : RLe(x, m)

\* C5 as written: the speed of the tick is the maximum of the floor speed and
\* of the independent curve results of the drive maximum and of every hwmon,
\* and it is the speed every set_speed of the tick receives.
C5_SpeedIsMaxOfTargets ==
    Computed
        => speed = RMaxSet(IndependentTargets(min_fan_speed, max_drive_temp,
                                              hwmon_temps))

\* C6: the speed of the tick, which is the speed every set_speed receives, is
\* at least the floor speed and every independent curve result, and at most 1.
C6_SpeedBounds ==
    /\ Computed
          => /\ \A x \in IndependentTargets(min_fan_speed, max_drive_temp,
                                            hwmon_temps) : RLe(x, speed)
             /\ RLe(min_fan_speed, speed)
    /\ speed # None => RLe(min_fan_speed, speed) /\ RLe(speed, One)
    /\ \A k \in 1..Len(commanded) : commanded[k] = speed

C6_Witness ==
    /\ pc = "fans"
    /\ max_drive_temp = Some(40)
    /\ hwmon_temps = <<35, 55>>
    /\ RLt(min_fan_speed, speed) /\ RLt(speed, One)

\* C7: when no drive contributed a temperature and no hwmon temperature is
\* above the low bound of its range, every set_speed receives the floor speed.
C7_QuietTickFloor ==
    /\ (/\ Computed
        /\ max_drive_temp = None
        /\ \A k \in 1..Len(hwmon_temps) : hwmon_temps[k] <= hwmon_range.start)
          => speed = min_fan_speed
    /\ \A k \in 1..Len(commanded) : commanded[k] = speed

C7_Witness ==
    /\ pc = "fans"
    /\ fan_speed[1] = One
    /\ max_drive_temp = None
    /\ hwmon_temps = <<25, 25>>
    /\ min_fan_speed = <<1, 5>>
    /\ speed = <<1, 5>>

\* C8: an error of a drive state query, of a drive probe or of a hwmon read
\* ends the loop with an error: the operation was called once, no set_speed
\* was called in the tick, and the loop is not entered again.
C8_ReadErrorIsFatal ==
    /\ \A d \in Drives : nstate[d] <= 1 /\ nprobe[d] <= 1
    /\ \A k \in 1..NHwmon : nhwmon[k] <= 1
    /\ failed \in {"drive_state", "probe_temp", "hwmon"}
          => /\ Stopped
             /\ result = "err"
             /\ commanded = <<>>

C8_Witness ==
    /\ pc = "teardown"
    /\ failed = "probe_temp"
    /\ nstate = [d \in Drives |-> 1]
    /\ nprobe[NDrives] = 1
    /\ commanded = <<>>

\* C10: the fans are commanded in order with the speed of the tick; a tick
\* that reaches its sleep has commanded every fan; a failing set_speed leaves
\* the later fans uncommanded and ends the loop.
C10_AllFansOrStop ==
    /\ \A k \in 1..Len(commanded) : commanded[k] = speed
    /\ pc = "fans" => Len(commanded) = i - 1
    /\ pc \in {"sleep_start", "sleep"}
          => /\ Len(commanded) = NFans
             /\ \A f \in Fans : fan_speed[f] = speed
    /\ (pc = "loop" /\ woke # "none") => Len(commanded) = NFans
    /\ failed = "set_speed"
          => /\ Stopped
             /\ result = "err"
             /\ pc = "teardown" => Len(commanded) = i

C10_Witness ==
    /\ pc = "teardown"
    /\ failed = "set_speed"
    /\ Len(commanded) = 1
    /\ i = 1
\* C9: while a message is queued the sleep lets no time pass, and a sleep
\* with a queued message is eventually followed by the end of the loop; a
\* sleep that ends by its timeout has lasted max(0, interval - elapsed), which
\* is never negative; a sleep ended by a message finds the flag set.
C9_InterruptibleSleep ==
    /\ [][(pc = "sleep" /\ chan > 0) => remaining' = remaining]_vars
    /\ [](to_wait >= 0 /\ remaining >= 0)
    /\ []((pc = "sleep" \/ woke # "none")
            => to_wait = IF interval - elapsed > 0 THEN interval - elapsed ELSE 0)
    /\ [](woke = "timeout" => remaining = 0)
    /\ [](woke = "msg" => exit_requested)
    /\ ((pc = "sleep" /\ chan > 0) ~> Stopped)

C9_Witness ==
    /\ pc = "loop"
    /\ woke = "msg"
    /\ to_wait = 2 /\ remaining = 1

\* C11: the speed computed from one drive temperature alone is the floor speed
\* at or below the low bound of the range, 1 at or above the high bound, and
\* floor + (1 - floor) * (temp - low) / (high - low) in between; 40 degrees
\* with the range 30-50 and a floor of 20% give 60%.
C11_CurveIsPiecewiseLinear ==
    (pc = "fans" /\ max_drive_temp # None /\ hwmon_temps = <<>>)
        => LET t    == max_drive_temp[1]
               low  == drive_temp_range.start
               high == drive_temp_range.end
               a    == min_fan_speed[1]
               b    == min_fan_speed[2]
           IN  /\ t <= low => speed = min_fan_speed
               /\ t >= high => speed = <<1, 1>>
               /\ (low < t /\ t < high)
                     => speed[1] * b * (high - low)
                          = speed[2] * (a * (high - low) + (b - a) * (t - low))
               /\ (t = 40 /\ min_fan_speed_prct = 20) => speed = <<3, 5>>

C11_Witness ==
    /\ pc = "fans"
    /\ max_drive_temp = Some(40)
    /\ min_fan_speed = <<1, 5>>
    /\ speed = <<3, 5>>

\* C12: a set_speed call that succeeds on a fan whose last commanded speed was
\* 0, with a new speed strictly between 0 and the start threshold, writes the
\* start threshold and then the speed; every other call that succeeds writes
\* the speed only; and as long as no set_speed has failed the value of a
\* channel is that of the speed commanded last to its fan.
C12_KickStartThenSpeed ==
    /\ [][(pc = "fans" /\ commanded' # commanded /\ failed' = failed)
            => LET last == fan_speed[i]
                   s    == speed
                   kick == /\ last = <<0, 1>>
                           /\ s[1] > 0
                           /\ s[1] * thresholds.start[2] < thresholds.start[1] * s[2]
               IN  /\ writes' = IF kick THEN <<Raw(thresholds.start), Raw(s)>>
                                 ELSE <<Raw(s)>>
                   /\ pwm'[i] = Raw(s)
                   /\ fan_speed'[i] = s]_vars
    /\ [](failed # "set_speed"
            => \A f \in Fans : fan_speed[f] # None => pwm[f] = Raw(fan_speed[f]))

C12_Witness ==
    /\ pc = "fans"
    /\ i = 2
    /\ fan_speed[1] = <<1, 10>>
    /\ writes = <<77, 26>>
    /\ pwm[1] = 26

\* C13: the thresholds fan.test() returns never have start < stop, whatever
\* the raw values at which the fan spins up and stalls; a test that returns
\* thresholds has seen a nonzero RPM within [0, max_raw], and the test of a
\* fan whose RPM never becomes nonzero in that range fails; a fan that spins
\* from 80 and stalls at 40 gives the thresholds 80/255 and 40/255.
C13_StartNotBelowStop ==
    /\ test.t # None
          => /\ RLe(test.t[1].stop, test.t[1].start)
             /\ test.res = "ok"
             /\ sim.spin_at <= max_raw
    /\ test.res = "ok" => test.t # None
    /\ (test.pc = "report" /\ sim.spin_at > max_raw)
          => test.res = "err" /\ test.t = None
    /\ (test.res = "ok" /\ sim = [spin_at |-> 80, stall_at |-> 40])
          => test.t = Some([start |-> <<16, 51>>, stop |-> <<8, 51>>])

C13_Witness ==
    /\ test.pc = "report"
    /\ test.res = "ok"
    /\ sim = [spin_at |-> 80, stall_at |-> 120]
    /\ test.t = Some([start |-> <<16, 51>>, stop |-> <<5, 17>>])

\* the steps of setup that can fail before the loop, and the positions of
\* the control thread inside the loop
SetupOps == {"setup_drives", "setup_hwmons", "setup_speed", "setup_fans",
             "setup_hook"}
LoopPcs == {"loop", "drive_state", "drive_temp", "reduce", "hwmon", "compute",
            "fans", "sleep_start", "sleep"}

\* C14: after a failure of a setup step main is on its way out and the loop
\* was never entered: no drive state was queried, no temperature probed, no
\* set_speed called, no sleep taken; the loop runs only after every setup
\* step has succeeded, with a valid minimum speed.
C14_SetupErrorBeforeLoop ==
    /\ failed \in SetupOps
          => /\ Stopped
             /\ result = "err"
             /\ \A d \in Drives : nstate[d] = 0 /\ nprobe[d] = 0
             /\ \A k \in 1..NHwmon : nhwmon[k] = 0
             /\ state = "none" /\ temps = <<>> /\ hwmon_temps = <<>>
             /\ speed = None /\ commanded = <<>> /\ writes = <<>>
             /\ \A f \in Fans : fan_speed[f] = None /\ pwm[f] = InitialRaw[f]
             /\ woke = "none"
             /\ ~handler_set
    /\ pc \in LoopPcs
          => /\ failed = "none"
             /\ min_fan_speed_prct \in 0..100
             /\ min_fan_speed # None
             /\ exit_hook # None
             /\ handler_set

C14_Witness ==
    /\ pc = "exited"
    /\ failed = "setup_speed"
    /\ min_fan_speed_prct = 120
    /\ result = "err"
    /\ exit_hook = None

\* C15: when the hook has fired, every channel whose restoration did not
\* fail holds the value of the restoration policy (the captured value, or
\* full speed), whichever other channels failed; and a failed restoration
\* does not make the exit an error: main returns Ok exactly when no
\* operation of main failed.
C15_RestoreBestEffort ==
    (pc = "exited" /\ exit_hook # None)
        => /\ fired = 1
           /\ \A f \in Fans \ restore_failed :
                 pwm[f] = IF restore_fan_settings THEN InitialRaw[f] ELSE max_raw
           /\ (result = "ok") <=> (failed = "none")

C15_Witness ==
    /\ pc = "exited"
    /\ result = "ok"
    /\ ~restore_fan_settings
    /\ restore_failed = {1}
    /\ pwm[1] # max_raw
    /\ pwm[2] = max_raw

\* the order in which the control thread moves through a tick
TickOrder ==
    {<<"loop", "drive_state">>, <<"drive_state", "drive_temp">>,
     <<"drive_temp", "drive_state">>, <<"drive_temp", "reduce">>,
     <<"reduce", "hwmon">>, <<"reduce", "compute">>, <<"hwmon", "compute">>,
     <<"compute", "fans">>, <<"fans", "sleep_start">>,
     <<"sleep_start", "sleep">>, <<"sleep", "loop">>}

\* C16: within a tick the control thread moves only forward through the
\* phases drives, hwmons, fans, sleep (or out of the loop), and through the
\* drives, hwmons and fans in order; the power state of a drive has been
\* queried once when the drive is probed; while the drives are handled no
\* hwmon has been read, while the hwmons are read no fan has been commanded,
\* and the sleep starts with every fan commanded; at the end of the drive
\* phase every drive's state was queried once and every drive probed at most
\* once.
C16_FixedOrder ==
    /\ [][(pc \in LoopPcs /\ pc' # pc)
            => (<<pc, pc'>> \in TickOrder \/ pc' = "teardown")]_vars
    /\ [][(pc \in {"drive_temp", "hwmon", "fans"} /\ pc' \in LoopPcs /\ i' # i)
            => (i' = i + 1 \/ pc' \notin {"drive_state", pc})]_vars
    /\ [](pc \in {"drive_state", "drive_temp"}
            => /\ Len(temps) = i - 1
               /\ \A d \in Drives :
                     /\ nstate[d] = IF d < i \/ (d = i /\ pc = "drive_temp")
                                     THEN 1 ELSE 0
                     /\ nprobe[d] <= nstate[d]
                     /\ d >= i => nprobe[d] = 0)
    /\ [](pc = "reduce"
            => /\ Len(temps) = NDrives
               /\ \A d \in Drives : nstate[d] = 1 /\ nprobe[d] <= 1)
    /\ [](pc \in {"drive_state", "drive_temp", "reduce"}
            => /\ \A k \in 1..NHwmon : nhwmon[k] = 0
               /\ hwmon_temps = <<>> /\ speed = None /\ commanded = <<>>
               /\ woke = "none")
    /\ [](pc \in {"hwmon", "compute"}
            => /\ temps = <<>>
               /\ \A k \in 1..NHwmon :
                     nhwmon[k] = IF k < i \/ (pc = "compute" /\ k <= hwmons)
                                 THEN 1 ELSE 0
               /\ Len(hwmon_temps) = (IF pc = "hwmon" THEN i - 1 ELSE hwmons)
               /\ speed = None /\ commanded = <<>> /\ woke = "none")
    /\ [](pc = "fans"
            => speed # None /\ Len(commanded) = i - 1 /\ woke = "none")
    /\ [](pc \in {"sleep_start", "sleep"} => Len(commanded) = NFans)

C16_Witness ==
    /\ pc = "fans"
    /\ i = NFans
    /\ Len(commanded) = NFans - 1
    /\ hwmons = NHwmon
    /\ supports = [d \in Drives |-> TRUE]
    /\ signals = 0

\* the tick that was in progress has commanded its fans, or no tick was run
TickComplete == woke = "none" \/ Len(commanded) = NFans

Probed == {d \in 1..Len(temps) : nprobe[d] = 1}
ProbedTemps == {temps[d][1] : d \in {k \in 1..Len(temps) : temps[k] # None}}

\* C18: the reduction gives the largest temperature among the drives probed
\* in the tick, and nothing exactly when no drive was probed; a tick without
\* a maximum drive temperature computes its speed from the floor speed and
\* the hwmon temperatures alone.
C18_MaxOfProbedDrives ==
    /\ [][(pc = "reduce" /\ pc' # pc)
            => /\ (max_drive_temp' = None) <=> (Probed = {})
               /\ Probed # {}
                     => /\ max_drive_temp'[1] \in ProbedTemps
                        /\ \A t \in ProbedTemps : t <= max_drive_temp'[1]
               /\ \A d \in Probed : temps[d] # None]_vars
    /\ []((Computed /\ max_drive_temp = None)
            => speed = FoldHwmon(hwmon_temps, min_fan_speed))
    /\ []((Computed /\ max_drive_temp = None /\ hwmons = 0)
            => speed = min_fan_speed)

C18_Witness ==
    /\ pc = "compute"
    /\ hwmons = 0
    /\ max_drive_temp = Some(40)
    /\ supports = [d \in Drives |-> d # 1]
    /\ signals = 0

\* the positions of a tick before its sleep is entered
BeforeSleep == {"drive_state", "drive_temp", "reduce", "hwmon", "compute",
                "fans", "sleep_start"}

\* C19: a handler that has run to its end during a tick has left a message
\* in the channel; a queued message is not taken before the sleep; a sleep
\* entered with a message queued starts with the whole of its duration left
\* and ends by receiving the message with none of it spent; and a message
\* queued before the sleep leads to that immediate return, unless an
\* operation of the tick fails first.
C19_NoLostWakeup ==
    /\ []((pc \in BeforeSleep \cup {"sleep"} /\ exit_requested /\ hpc = "idle")
            => chan > 0)
    /\ [][(pc \in BeforeSleep /\ pc' \in LoopPcs) => chan' >= chan]_vars
    /\ [][(pc = "sleep_start" /\ chan > 0 /\ pc' # pc)
            => (pc' = "sleep" /\ chan' > 0 /\ remaining' = to_wait')]_vars
    /\ [][(pc = "sleep" /\ chan > 0)
            => /\ remaining' = remaining
               /\ pc' # pc => (pc' = "loop" /\ woke' = "msg")]_vars
    /\ ((pc \in BeforeSleep /\ chan > 0)
          ~> ((pc = "loop" /\ woke = "msg" /\ remaining = to_wait)
              \/ failed # "none"))

C19_Witness ==
    /\ pc = "loop"
    /\ woke = "msg"
    /\ elapsed = 0
    /\ to_wait = 2
    /\ remaining = 2
    /\ signals = 1

\* C20: the flag is set whenever the handler is about to send or a message
\* is queued, so a sleep that returned with a message is followed by a loop
\* condition that finds the flag set: the loop ends, main returns Ok, and no
\* tick follows.
C20_FlagBeforeMessage ==
    /\ []((hpc = "send" \/ chan > 0) => exit_requested)
    /\ [](woke = "msg" => (exit_requested /\ pc \in {"loop", "teardown"}))
    /\ [][(pc = "loop" /\ woke = "msg" /\ pc' # pc)
            => (pc' = "teardown" /\ result' = "ok")]_vars

C20_Witness ==
    /\ pc = "teardown"
    /\ woke = "msg"
    /\ result = "ok"
    /\ chan = 1
    /\ signals = MaxSignals
====
